---- MODULE Spec2Model ----
(***************************************************************************)
(* Streaming markdown renderer: StreamProcessor (both variants kept in     *)
(* core/worker-parser.ts), MarkdownParser.splitIntoBlocks and the          *)
(* IncrementalRenderer of core/renderer.ts.                                *)
(*                                                                         *)
(* Text is a sequence of one-character strings.  A block is a record       *)
(* [id, content]; the markup is a function of content and is not kept.     *)
(***************************************************************************)
EXTENDS Integers, Sequences, FiniteSets, TLC

(***************************************************************************)
(* Bounds of the model                                                     *)
(***************************************************************************)
\* number of append() calls issued since construction
MaxCalls == 3
\* number of finish() calls issued since construction
MaxFinishes == 1
\* number of clear() calls issued since construction
MaxClears == 1
\* number of direct appendBlocks() calls issued to a renderer used on its own
MaxBatches == 2
\* blocks materialized per drain (config.chunkSize, default 10)
ChunkSize == 2
\* the clock reading up to which the model follows Date.now()
MaxNow == 1
\* conversion requests that may be awaiting at once
MaxInflight == 2
\* the longest chunk of the one-call specification
MaxText == 5
\* the windowed view: items in the list, pixels per item, pixels of the
\* viewport, items of margin
MaxItems == 3
MaxItemHeight == 2
MaxContainerHeight == 3
MaxBufferSize == 1
\* WorkerParser.parseBlocks calls issued since construction
MaxRequests == 3
\* the lines of the longest text passed to splitIntoBlocks on its own
MaxLines == 4

(***************************************************************************)
(* Characters and JavaScript string primitives                             *)
(***************************************************************************)
NL == "\n"
SP == " "
\* the backquote character, written as a token (the lexer rejects it in a string)
BT == "bq"

\* \s of the regular expressions and of String.prototype.trim
IsSpace(c) == c \in {SP, NL}

\* the class [.!?] of the sentence regular expression
IsPunct(c) == c \in {".", "!", "?"}

\* s.substring(from) with a 0-based index: the characters from+1 .. Len(s)
Drop(s, n) == IF n >= Len(s) THEN <<>> ELSE SubSeq(s, n + 1, Len(s))

\* s.substring(0, n)
Take(s, n) == IF n <= 0 THEN <<>> ELSE SubSeq(s, 1, IF n > Len(s) THEN Len(s) ELSE n)

\* s.startsWith(p)
StartsWith(s, p) == Len(s) >= Len(p) /\ SubSeq(s, 1, Len(p)) = p

\* s.endsWith(p)
EndsWith(s, p) == Len(s) >= Len(p) /\ SubSeq(s, Len(s) - Len(p) + 1, Len(s)) = p

\* p occurs in s at the 0-based index i
OccursAt(s, p, i) == i >= 0 /\ i + Len(p) <= Len(s) /\ SubSeq(s, i + 1, i + Len(p)) = p

\* s.indexOf(p): the least 0-based index of an occurrence, -1 when there is none
IndexOf(s, p) ==
  LET hits == {i \in 0..Len(s) : OccursAt(s, p, i)}
  IN IF hits = {} THEN -1 ELSE CHOOSE i \in hits : \A j \in hits : i <= j

\* s.lastIndexOf(p): the greatest 0-based index of an occurrence, -1 when none
LastIndexOf(s, p) ==
  LET hits == {i \in 0..Len(s) : OccursAt(s, p, i)}
  IN IF hits = {} THEN -1 ELSE CHOOSE i \in hits : \A j \in hits : i >= j

\* s.includes(c) for a one-character pattern
Includes(s, c) == \E i \in 1..Len(s) : s[i] = c

RECURSIVE TrimStart(_)
TrimStart(s) == IF s # <<>> /\ IsSpace(Head(s)) THEN TrimStart(Tail(s)) ELSE s

RECURSIVE TrimEnd(_)
TrimEnd(s) ==
  IF s # <<>> /\ IsSpace(s[Len(s)]) THEN TrimEnd(SubSeq(s, 1, Len(s) - 1)) ELSE s

\* s.trim()
Trim(s) == TrimEnd(TrimStart(s))

\* s.split('\n'): the lines of s, always at least one
RECURSIVE SplitLines(_)
SplitLines(s) ==
  LET i == IndexOf(s, <<NL>>)
  IN IF i = -1 THEN <<s>> ELSE <<Take(s, i)>> \o SplitLines(Drop(s, i + 1))

\* lines.join('\n')
RECURSIVE JoinLines(_)
JoinLines(ls) ==
  IF ls = <<>> THEN <<>>
  ELSE IF Len(ls) = 1 THEN ls[1]
  ELSE ls[1] \o <<NL>> \o JoinLines(Tail(ls))

\* pieces.join('')
RECURSIVE Concat(_)
Concat(ss) == IF ss = <<>> THEN <<>> ELSE Head(ss) \o Concat(Tail(ss))

\* total number of characters of a sequence of texts
RECURSIVE TotalLen(_)
TotalLen(ss) == IF ss = <<>> THEN 0 ELSE Len(Head(ss)) + TotalLen(Tail(ss))

\* s.slice(n): a negative n counts from the end
Slice(s, n) ==
  IF n >= 0 THEN Drop(s, n) ELSE Drop(s, IF Len(s) + n > 0 THEN Len(s) + n ELSE 0)

(***************************************************************************)
(* MarkdownParser.splitIntoBlocks                                          *)
(***************************************************************************)
\* the three backquotes that open and close a code block
FENCE == <<BT, BT, BT>>

\* trimmed.includes('|') && (trimmed.startsWith('|') || trimmed.endsWith('|'))
IsTableLine(t) == Includes(t, "|") /\ (StartsWith(t, <<"|">>) \/ EndsWith(t, <<"|">>))

\* trimmed.match(/^[-*_]{3,}$/)
IsHr(t) == Len(t) >= 3 /\ \A i \in 1..Len(t) : t[i] \in {"-", "*", "_"}

\* if (currentBlock.length > 0) { blocks.push(currentBlock.join('\n')) }
Flush(blocks, cur) == IF cur # <<>> THEN Append(blocks, JoinLines(cur)) ELSE blocks

\* the for loop of splitIntoBlocks from line i on, with its four locals
RECURSIVE SplitLoop(_, _, _, _, _, _)
SplitLoop(lines, i, blocks, cur, inCodeBlock, inTable) ==
  IF i > Len(lines) THEN Flush(blocks, cur)
  ELSE
    LET line == lines[i]
        t == Trim(line)
        \* the else-if (inTable) branch taken by a line that is no table row
        b1 == IF inTable THEN Append(blocks, JoinLines(cur)) ELSE blocks
        c1 == IF inTable THEN <<>> ELSE cur
    IN
    IF StartsWith(t, FENCE) THEN
      IF inCodeBlock
      THEN SplitLoop(lines, i + 1, Append(blocks, JoinLines(Append(cur, line))),
                     <<>>, FALSE, inTable)
      ELSE SplitLoop(lines, i + 1, Flush(blocks, cur), <<line>>, TRUE, inTable)
    ELSE IF inCodeBlock THEN
      SplitLoop(lines, i + 1, blocks, Append(cur, line), TRUE, inTable)
    ELSE IF IsTableLine(t) THEN
      SplitLoop(lines, i + 1,
                IF ~inTable THEN Flush(blocks, cur) ELSE blocks,
                Append(IF ~inTable THEN <<>> ELSE cur, line), FALSE, TRUE)
    ELSE IF t = <<>> THEN
      SplitLoop(lines, i + 1, Flush(b1, c1), <<>>, FALSE, FALSE)
    ELSE IF StartsWith(t, <<"#">>) \/ IsHr(t) THEN
      SplitLoop(lines, i + 1, Append(Flush(b1, c1), line), <<>>, FALSE, FALSE)
    ELSE
      SplitLoop(lines, i + 1, b1, Append(c1, line), FALSE, FALSE)

\* b.trim().length > 0
NonBlank(b) == Trim(b) # <<>>

\* splitIntoBlocks without the filter of its return statement
splitUnfiltered(markdown) ==
  SplitLoop(SplitLines(markdown), 1, <<>>, <<>>, FALSE, FALSE)

splitIntoBlocks(markdown) ==
  SelectSeq(SplitLoop(SplitLines(markdown), 1, <<>>, <<>>, FALSE, FALSE), NonBlank)

(***************************************************************************)
(* StreamProcessor.extractCompleteBlocks, sentence-boundary variant        *)
(***************************************************************************)
\* the result of an extraction: the spans found, the buffer left, and whether
\* the call threw
Extracted(blocks, buffer, threw) == [blocks |-> blocks, buffer |-> buffer, threw |-> threw]

\* buffer.split(/([.!?])\s+/): the pieces between matches, each followed by
\* the captured punctuation mark; the white space of a match is dropped
RECURSIVE SentencePieces(_)
SentencePieces(s) ==
  LET hits == {i \in 1..(Len(s) - 1) : IsPunct(s[i]) /\ IsSpace(s[i + 1])}
  IN IF hits = {} THEN <<s>>
     ELSE LET m == CHOOSE i \in hits : \A j \in hits : i <= j
          IN <<Take(s, m - 1), <<s[m]>>>> \o SentencePieces(TrimStart(Drop(s, m)))

\* line.startsWith('#') || line.startsWith('```') || line.includes('|')
IsSpecialLine(t) == StartsWith(t, <<"#">>) \/ StartsWith(t, FENCE) \/ Includes(t, "|")

\* the scan for special lines: every line but the last is looked at
SpecialLines(buffer) ==
  LET lines == SplitLines(buffer)
      hits == {i \in 1..(Len(lines) - 1) : IsSpecialLine(Trim(lines[i]))}
  IN IF hits = {} THEN Extracted(<<>>, buffer, FALSE)
     ELSE LET i == CHOOSE k \in hits : \A j \in hits : k <= j
          IN Extracted(<<JoinLines(SubSeq(lines, 1, i))>>,
                       JoinLines(SubSeq(lines, i + 1, Len(lines))), FALSE)

\* extractSentence with the last punctuation mark left off the span, as if
\* line 131 returned [completeContent]
extractSentenceNoPunct(buffer) ==
  LET doubleNewlineIndex == IndexOf(buffer, <<NL, NL>>)
      completeContent == Take(buffer, doubleNewlineIndex)
      sentences == SentencePieces(buffer)
      n == Len(sentences)
  IN IF doubleNewlineIndex # -1 THEN
       Extracted(IF Trim(completeContent) # <<>> THEN <<completeContent>> ELSE <<>>,
                 Drop(buffer, doubleNewlineIndex + 2), FALSE)
     ELSE IF n > 2 THEN
       IF sentences[n - 1] # <<>>
       THEN Extracted(<<Concat(SubSeq(sentences, 1, n - 2))>>, sentences[n], FALSE)
       ELSE SpecialLines(sentences[n])
     ELSE SpecialLines(buffer)

extractSentence(buffer) ==
  LET doubleNewlineIndex == IndexOf(buffer, <<NL, NL>>)
      completeContent == Take(buffer, doubleNewlineIndex)
      sentences == SentencePieces(buffer)
      n == Len(sentences)
      lastSentence == sentences[n]
      lastPunctuation == sentences[n - 1]
  IN IF doubleNewlineIndex # -1 THEN
       Extracted(IF Trim(completeContent) # <<>> THEN <<completeContent>> ELSE <<>>,
                 Drop(buffer, doubleNewlineIndex + 2), FALSE)
     ELSE IF n > 2 THEN
       IF lastPunctuation # <<>>
       THEN Extracted(<<Concat(SubSeq(sentences, 1, n - 2)) \o lastPunctuation>>,
                      lastSentence, FALSE)
       ELSE SpecialLines(lastSentence)
     ELSE SpecialLines(buffer)

(***************************************************************************)
(* StreamProcessor.extractCompleteBlocks, last-block-completeness variant  *)
(***************************************************************************)
\* trimmed.match(/```/g).length: non-overlapping matches from the left
RECURSIVE CountFence(_)
CountFence(s) ==
  LET i == IndexOf(s, FENCE)
  IN IF i = -1 THEN 0 ELSE 1 + CountFence(Drop(s, i + 3))

isBlockComplete(block, fullBuffer) ==
  LET trimmed == Trim(block)
      blockEndIndex == LastIndexOf(fullBuffer, block) + Len(block)
      remaining == Trim(Slice(fullBuffer, blockEndIndex))
  IN IF StartsWith(trimmed, FENCE) THEN CountFence(trimmed) >= 2
     ELSE IF Includes(trimmed, "|") THEN remaining = <<>> \/ StartsWith(remaining, <<NL, NL>>)
     ELSE TRUE

\* blocks[blocks.length - 1] is undefined for an empty list, and
\* isBlockComplete then throws on block.trim()
extractLastBlock(buffer) ==
  LET blocks == splitIntoBlocks(buffer)
      lastBlock == blocks[Len(blocks)]
  IN IF blocks = <<>> THEN Extracted(<<>>, buffer, TRUE)
     ELSE IF ~isBlockComplete(lastBlock, buffer)
     THEN Extracted(SubSeq(blocks, 1, Len(blocks) - 1),
                    Slice(buffer, LastIndexOf(buffer, lastBlock)), FALSE)
     ELSE Extracted(blocks, <<>>, FALSE)

\* the two StreamProcessor classes of the repository
Variants == {"sentence", "lastBlock"}

\* extractCompleteBlocks with the assignments to this.buffer forgotten: the
\* spans are returned and the buffer keeps them
extractKeepsBuffer(v, buffer) ==
  [(IF v = "sentence" THEN extractSentence(buffer) ELSE extractLastBlock(buffer))
     EXCEPT !.buffer = buffer]

extractCompleteBlocks(v, buffer) ==
  IF v = "sentence" THEN extractSentence(buffer) ELSE extractLastBlock(buffer)

(***************************************************************************)
(* State                                                                   *)
(***************************************************************************)
VARIABLES
  variant,          \* which StreamProcessor class is running
  debounceMs,       \* IncrementalRenderer.config.debounceMs
  scroller,         \* VirtualScroller: its props and its scrollTop ref
  wp,               \* WorkerParser with its worker: fields and messages in flight
  split,            \* a call of MarkdownParser.splitIntoBlocks: argument and result
  buffer,           \* StreamProcessor.buffer
  processedBlocks,  \* StreamProcessor.processedBlocks
  inflight,         \* parseBlocks calls awaited by append()/finish(), in dispatch order
  pendingBlocks,    \* IncrementalRenderer.pendingBlocks
  container,        \* the children of the container element, in document order
  renderedBlocks,   \* IncrementalRenderer.renderedBlocks: block id -> element
  rafId,            \* IncrementalRenderer.rafId is not null
  frames,           \* drain callbacks requested from requestAnimationFrame, not yet run
  timers,           \* outstanding setTimeout(scheduleRender, delay) calls, per delay
  lastTempBlockId,  \* IncrementalRenderer.lastTempBlockId, NoId for null
  nextEid,          \* identity given to the next element created
  now,              \* Date.now()
  ack,              \* the call the last step completed, NoAck when it completed none
  appended,         \* history: the text passed to append() since the last clear()
  nCalls,           \* history: append() and direct appendBlocks() calls issued
  nFinishes,        \* history: finish() calls issued
  nClears,          \* history: clear() calls issued
  nDispatch,        \* history: conversion requests and direct batches issued
  remainder,        \* history: the buffer handed to the last finish()
  failed,           \* history: a conversion has failed since the last clear()
  lastCall,         \* history: the kind of the last call issued
  lastRealBatch,    \* history: ordinal of the last batch enqueued with a finalized head
  retracted,        \* history: the last step was an appendBlocks that removed a temp
  lastRenderTime    \* history: the renderTime line 105 read in the last step, 0 if none

svars == <<variant, debounceMs, scroller, wp, split, buffer, processedBlocks, inflight, appended, remainder,
           failed, lastCall>>
rvars == <<pendingBlocks, container, renderedBlocks, rafId, frames, timers, lastTempBlockId,
           nextEid>>
hvars == <<now, ack, nCalls, nFinishes, nClears, nDispatch, lastRealBatch, retracted, lastRenderTime>>
vars == <<svars, rvars, hvars>>

None == "none"
NoId == <<>>

\* a call completing: append() or finish() settling, clear() returning
Settled(kind, outcome) == [kind |-> kind, outcome |-> outcome]
NoAck == Settled(None, None)

\* the texts a producer passes to append()
Chunks ==
  { <<"a">>, <<".", SP>>, <<NL>>, <<NL, NL>>, FENCE, <<"#">>, <<"|">> }

(***************************************************************************)
(* Blocks                                                                  *)
(***************************************************************************)
\* `block-${index}-${Date.now()}` of parseBlock
BlockId(index, time) == <<"block", index, time>>

\* an id of the reserved namespace '__temp__'
TempId(k) == <<"__temp__", k>>

\* id.startsWith('__temp__')
IsTemp(id) == id # NoId /\ id[1] = "__temp__"

\* DOMPurify.sanitize(await marked.parse(content)): the markup of a span
Html(content) == <<"<p>">> \o content

\* a MarkdownBlock; by, call and epoch record which kind of call made it, the
\* ordinal of its request and how many clear() calls preceded that request
Block(id, content, by, call, epoch) ==
  [id |-> id, content |-> content, html |-> Html(content), by |-> by,
   call |-> call, epoch |-> epoch]

\* the contents of a sequence of blocks or elements
RECURSIVE Contents(_)
Contents(bs) == IF bs = <<>> THEN <<>> ELSE <<Head(bs).content>> \o Contents(Tail(bs))

(***************************************************************************)
(* IncrementalRenderer                                                     *)
(***************************************************************************)
EmptyMap == [x \in {} |-> 0]
MapSet(m, k, v) == [x \in DOMAIN m \cup {k} |-> IF x = k THEN v ELSE m[x]]
MapDelete(m, k) == [x \in DOMAIN m \ {k} |-> m[x]]

\* element.remove(): the element leaves whatever holds it
RemoveElement(els, eid) == SelectSeq(els, LAMBDA e : e.eid # eid)

\* the renderer's fields as one record, threaded through its methods
RState(c, f, m, t, n) ==
  [container |-> c, fragment |-> f, renderedBlocks |-> m, lastTempBlockId |-> t,
   nextEid |-> n]

\* the clean-up with its test inverted, as if line 38 lacked the negation
CleanTempInverted(r, blocks) ==
  IF r.lastTempBlockId # NoId /\ blocks # <<>>
     /\ r.lastTempBlockId \in DOMAIN r.renderedBlocks
     /\ IsTemp(blocks[1].id)
  THEN [r EXCEPT !.container = RemoveElement(@, r.renderedBlocks[r.lastTempBlockId]),
                 !.renderedBlocks = MapDelete(@, r.lastTempBlockId),
                 !.lastTempBlockId = NoId]
  ELSE r

\* the temp-block clean-up at the head of appendBlocks
CleanTemp(r, blocks) ==
  IF r.lastTempBlockId # NoId /\ blocks # <<>>
     /\ r.lastTempBlockId \in DOMAIN r.renderedBlocks
     /\ ~IsTemp(blocks[1].id)
  THEN [r EXCEPT !.container = RemoveElement(@, r.renderedBlocks[r.lastTempBlockId]),
                 !.renderedBlocks = MapDelete(@, r.lastTempBlockId),
                 !.lastTempBlockId = NoId]
  ELSE r

\* one pass of the loop without lines 77-83: the old temp block is kept
RenderOneKeepsOld(r, block) ==
  LET r2 == IF IsTemp(block.id) THEN [r EXCEPT !.lastTempBlockId = block.id] ELSE r
      element == [eid |-> r.nextEid, id |-> block.id, content |-> block.content,
                  html |-> block.html, by |-> block.by, call |-> block.call,
                  epoch |-> block.epoch]
  IN [r2 EXCEPT !.fragment = Append(@, element),
                !.renderedBlocks = MapSet(@, block.id, r.nextEid),
                !.nextEid = @ + 1]

\* one pass of the for loop of renderPendingBlocks
RenderOne(r, block) ==
  LET old == r.lastTempBlockId
      drop == IsTemp(block.id) /\ old # NoId /\ old \in DOMAIN r.renderedBlocks
      r1 == IF drop
            THEN [r EXCEPT !.container = RemoveElement(@, r.renderedBlocks[old]),
                           !.fragment = RemoveElement(@, r.renderedBlocks[old]),
                           !.renderedBlocks = MapDelete(@, old)]
            ELSE r
      r2 == IF IsTemp(block.id) THEN [r1 EXCEPT !.lastTempBlockId = block.id] ELSE r1
      element == [eid |-> r.nextEid, id |-> block.id, content |-> block.content,
                  html |-> block.html, by |-> block.by, call |-> block.call,
                  epoch |-> block.epoch]
  IN [r2 EXCEPT !.fragment = Append(@, element),
                !.renderedBlocks = MapSet(@, block.id, r.nextEid),
                !.nextEid = @ + 1]

RECURSIVE RenderLoop(_, _)
RenderLoop(r, chunk) ==
  IF chunk = <<>> THEN r ELSE RenderLoop(RenderOne(r, Head(chunk)), Tail(chunk))

\* config.debounceMs ?? 16
DebounceMs == 16
\* the frame budget of renderTime > 16
FrameBudget == 16
\* the cap of Math.min(this.config.debounceMs, 8)
BackoffCap == 8

Min(a, b) == IF a < b THEN a ELSE b

\* a delay that backs off whatever the batch took
DelayAlways(renderTime) == Min(debounceMs, BackoffCap)

\* const delay = renderTime > 16 ? Math.min(this.config.debounceMs, 8) : 0
Delay(renderTime) == IF renderTime > FrameBudget THEN Min(debounceMs, BackoffCap) ELSE 0

Delays == {0, Min(DebounceMs, BackoffCap)}

\* the renderer's part of the state as a record
RNow == RState(container, <<>>, renderedBlocks, lastTempBlockId, nextEid)

\* a scheduleRender without the test of line 53
scheduleUnguarded ==
  /\ rafId' = TRUE
  /\ frames' = frames + 1

\* scheduleRender(): request a frame unless rafId holds one
scheduleRender ==
  /\ rafId' = TRUE
  /\ frames' = IF rafId THEN frames ELSE frames + 1

\* appendBlocks(blocks): clean up, push, scheduleRender
appendBlocks(blocks) ==
  LET r == CleanTemp(RNow, blocks)
  IN /\ container' = r.container
     /\ renderedBlocks' = r.renderedBlocks
     /\ lastTempBlockId' = r.lastTempBlockId
     /\ pendingBlocks' = pendingBlocks \o blocks
     /\ scheduleRender
     /\ UNCHANGED <<timers, nextEid>>

\* a drain that splices its chunk from the tail of the queue
renderFromTail(renderTime) ==
  IF pendingBlocks = <<>> THEN UNCHANGED <<pendingBlocks, container, renderedBlocks,
                                            timers, lastTempBlockId, nextEid>>
  ELSE
    LET keep == IF Len(pendingBlocks) > ChunkSize THEN Len(pendingBlocks) - ChunkSize ELSE 0
        chunk == Drop(pendingBlocks, keep)
        rest == Take(pendingBlocks, keep)
        r == RenderLoop(RNow, chunk)
    IN /\ pendingBlocks' = rest
       /\ container' = r.container \o r.fragment
       /\ renderedBlocks' = r.renderedBlocks
       /\ lastTempBlockId' = r.lastTempBlockId
       /\ nextEid' = r.nextEid
       /\ timers' = IF rest # <<>>
                    THEN [timers EXCEPT ![Delay(renderTime)] = @ + 1]
                    ELSE timers

\* a drain without lines 103-107: nothing is rescheduled for the rest
renderNoReschedule(renderTime) ==
  IF pendingBlocks = <<>> THEN UNCHANGED <<pendingBlocks, container, renderedBlocks,
                                            timers, lastTempBlockId, nextEid>>
  ELSE
    LET chunk == Take(pendingBlocks, ChunkSize)
        rest == Drop(pendingBlocks, ChunkSize)
        r == RenderLoop(RNow, chunk)
    IN /\ pendingBlocks' = rest
       /\ container' = r.container \o r.fragment
       /\ renderedBlocks' = r.renderedBlocks
       /\ lastTempBlockId' = r.lastTempBlockId
       /\ nextEid' = r.nextEid
       /\ timers' = timers

\* renderPendingBlocks(): materialize up to ChunkSize blocks as one batch
renderPendingBlocks(renderTime) ==
  IF pendingBlocks = <<>> THEN UNCHANGED <<pendingBlocks, container, renderedBlocks,
                                            timers, lastTempBlockId, nextEid>>
  ELSE
    LET chunk == Take(pendingBlocks, ChunkSize)
        rest == Drop(pendingBlocks, ChunkSize)
        r == RenderLoop(RNow, chunk)
    IN /\ pendingBlocks' = rest
       /\ container' = r.container \o r.fragment
       /\ renderedBlocks' = r.renderedBlocks
       /\ lastTempBlockId' = r.lastTempBlockId
       /\ nextEid' = r.nextEid
       /\ timers' = IF rest # <<>>
                    THEN [timers EXCEPT ![Delay(renderTime)] = @ + 1]
                    ELSE timers

\* the measured render times the model tells apart: within and over the budget
RenderTimes == {FrameBudget, FrameBudget + 1}

(***************************************************************************)
(* StreamProcessor                                                         *)
(***************************************************************************)
\* a parseBlocks call awaited by append() or finish(): the first block's id is
\* built before the first await, so its clock reading is taken at dispatch
Request(kind, blocks, call) ==
  [kind |-> kind, blocks |-> blocks, t0 |-> now, call |-> call, epoch |-> nClears]

RemoveAt(q, i) == SubSeq(q, 1, i - 1) \o SubSeq(q, i + 1, Len(q))

NonDecreasing(ts) == \A i \in 1..(Len(ts) - 1) : ts[i] <= ts[i + 1]

\* the clock readings parseBlocks can take for the blocks of one request
Readings(req) ==
  {ts \in [1..Len(req.blocks) -> req.t0..now] : ts[1] = req.t0 /\ NonDecreasing(ts)}

\* what parseBlocks resolves with: id from index and clock, content kept
Parsed(req, ts) ==
  [k \in 1..Len(req.blocks) |->
     Block(BlockId(k - 1, ts[k]), req.blocks[k], req.kind, req.call, req.epoch)]

InitBase ==
  /\ variant \in Variants
  /\ buffer = <<>>
  /\ processedBlocks = <<>>
  /\ inflight = <<>>
  /\ pendingBlocks = <<>>
  /\ container = <<>>
  /\ renderedBlocks = EmptyMap
  /\ rafId = FALSE
  /\ frames = 0
  /\ timers = [d \in Delays |-> 0]
  /\ lastTempBlockId = NoId
  /\ nextEid = 0
  /\ now = 0
  /\ ack = NoAck
  /\ appended = <<>>
  /\ nCalls = 0
  /\ nFinishes = 0
  /\ nClears = 0
  /\ nDispatch = 0
  /\ remainder = <<>>
  /\ failed = FALSE
  /\ lastCall = None
  /\ lastRealBatch = 0
  /\ retracted = FALSE
  /\ lastRenderTime = 0
  /\ wp = [requestId |-> 0, pendingRequests |-> {}, toWorker |-> <<>>, toMain |-> <<>>,
           settled |-> EmptyMap]

\* withDefaults(defineProps<Props>(), {...}) of VirtualScroller
DefaultItemHeight == 100
DefaultBufferSize == 5
DefaultContainerHeight == 600

\* a VirtualScroller: the length of props.items, the other props, scrollTop
Scroller(count, itemHeight, bufferSize, containerHeight, scrollTop) ==
  [count |-> count, itemHeight |-> itemHeight, bufferSize |-> bufferSize,
   containerHeight |-> containerHeight, scrollTop |-> scrollTop]

\* a call of splitIntoBlocks: its argument, whether it has returned, its result
Split(markdown, returned, blocks) ==
  [markdown |-> markdown, returned |-> returned, blocks |-> blocks]

\* the default configuration: debounceMs ?? 16, the default props, no items
Init ==
  /\ InitBase
  /\ split = Split(<<>>, FALSE, <<>>)
  /\ debounceMs = DebounceMs
  /\ scroller = Scroller(0, DefaultItemHeight, DefaultBufferSize, DefaultContainerHeight, 0)

\* append(chunk) up to its await (or to its return when nothing is extracted)
AppendChunk(chunk) ==
  LET r == extractCompleteBlocks(variant, buffer \o chunk)
  IN /\ nCalls < MaxCalls
     /\ nCalls' = nCalls + 1
     /\ appended' = appended \o chunk
     /\ buffer' = r.buffer
     /\ lastCall' = "append"
     /\ IF r.threw
        THEN /\ ack' = Settled("append", "rejected")
             /\ UNCHANGED <<inflight, nDispatch>>
        ELSE IF r.blocks = <<>>
        THEN /\ ack' = Settled("append", "resolved")
             /\ UNCHANGED <<inflight, nDispatch>>
        ELSE /\ Len(inflight) < MaxInflight
             /\ inflight' = Append(inflight, Request("append", r.blocks, nDispatch + 1))
             /\ nDispatch' = nDispatch + 1
             /\ ack' = NoAck
     /\ retracted' = FALSE
     /\ lastRenderTime' = 0
     /\ UNCHANGED <<variant, debounceMs, scroller, wp, split, processedBlocks, remainder, failed, rvars, now,
                    nFinishes, nClears, lastRealBatch>>

append == \E chunk \in Chunks : AppendChunk(chunk)

\* finish() up to its await (or to its return when the buffer is blank)
Finish ==
  LET remainingBlocks == splitIntoBlocks(buffer)
  IN /\ nFinishes < MaxFinishes
     /\ nFinishes' = nFinishes + 1
     /\ remainder' = buffer
     /\ lastCall' = "finish"
     /\ IF Trim(buffer) = <<>> \/ remainingBlocks = <<>>
        THEN /\ ack' = Settled("finish", "resolved")
             /\ buffer' = IF Trim(buffer) = <<>> THEN buffer ELSE <<>>
             /\ UNCHANGED <<inflight, nDispatch>>
        ELSE /\ Len(inflight) < MaxInflight
             /\ inflight' = Append(inflight, Request("finish", remainingBlocks, nDispatch + 1))
             /\ nDispatch' = nDispatch + 1
             /\ ack' = NoAck
             /\ UNCHANGED buffer
     /\ retracted' = FALSE
     /\ lastRenderTime' = 0
     /\ UNCHANGED <<variant, debounceMs, scroller, wp, split, processedBlocks, appended, failed, rvars, now,
                    nCalls, nClears, lastRealBatch>>

\* the awaited parseBlocks resolves: the rest of append() or finish() runs
ParseDone ==
  \E i \in 1..Len(inflight) :
    LET req == inflight[i]
    IN \E ts \in Readings(req) :
         /\ inflight' = RemoveAt(inflight, i)
         /\ processedBlocks' = processedBlocks \o Parsed(req, ts)
         /\ appendBlocks(Parsed(req, ts))
         /\ buffer' = IF req.kind = "finish" THEN <<>> ELSE buffer
         /\ ack' = Settled(req.kind, "resolved")
         /\ retracted' = FALSE
         /\ lastRenderTime' = 0
         /\ UNCHANGED <<variant, debounceMs, scroller, wp, split, appended, remainder, failed, lastCall, now,
                        nCalls, nFinishes, nClears, nDispatch, lastRealBatch>>

\* the awaited parseBlocks rejects (marked.parse threw): append() or finish()
\* rejects in turn, and the spans of the request are gone
ParseFail ==
  \E i \in 1..Len(inflight) :
    /\ inflight' = RemoveAt(inflight, i)
    /\ ack' = Settled(inflight[i].kind, "rejected")
    /\ failed' = TRUE
    /\ retracted' = FALSE
    /\ lastRenderTime' = 0
    /\ UNCHANGED <<variant, debounceMs, scroller, wp, split, buffer, processedBlocks, appended, remainder,
                   lastCall, rvars, now, nCalls, nFinishes, nClears, nDispatch, lastRealBatch>>

\* the fields clear() can read or write, as one record
Here ==
  [buffer |-> buffer, processedBlocks |-> processedBlocks,
   pendingBlocks |-> pendingBlocks, container |-> container,
   renderedBlocks |-> renderedBlocks, rafId |-> rafId, frames |-> frames,
   timers |-> timers,
   lastTempBlockId |-> lastTempBlockId, nextEid |-> nextEid]

\* a clear() that drops only the head of the pending queue
clearDropsHead(s) ==
  [s EXCEPT !.buffer = <<>>,
            !.processedBlocks = <<>>,
            !.frames = IF s.rafId THEN @ - 1 ELSE @,
            !.rafId = FALSE,
            !.pendingBlocks = IF @ = <<>> THEN <<>> ELSE Tail(@),
            !.renderedBlocks = EmptyMap,
            !.container = <<>>,
            !.nextEid = 0]

\* StreamProcessor.clear() with IncrementalRenderer.clear(), as a function of
\* the fields: timers and lastTempBlockId are not assigned
clear(s) ==
  [s EXCEPT !.buffer = <<>>,
            !.processedBlocks = <<>>,
            !.frames = IF s.rafId THEN @ - 1 ELSE @,
            !.rafId = FALSE,
            !.pendingBlocks = <<>>,
            !.renderedBlocks = EmptyMap,
            !.container = <<>>,
            !.nextEid = 0]

\* a call of clear()
Clear ==
  LET c == clear(Here)
  IN /\ nClears < MaxClears
     /\ nClears' = nClears + 1
     /\ buffer' = c.buffer
     /\ processedBlocks' = c.processedBlocks
     /\ rafId' = c.rafId
     /\ frames' = c.frames
     /\ pendingBlocks' = c.pendingBlocks
     /\ renderedBlocks' = c.renderedBlocks
     /\ container' = c.container
     /\ nextEid' = c.nextEid
     /\ timers' = c.timers
     /\ lastTempBlockId' = c.lastTempBlockId
     /\ appended' = <<>>
     /\ remainder' = <<>>
     /\ failed' = FALSE
     /\ lastCall' = "clear"
     /\ ack' = Settled("clear", "returned")
     /\ retracted' = FALSE
     /\ lastRenderTime' = 0
     /\ UNCHANGED <<variant, debounceMs, scroller, wp, split, inflight, now, nCalls, nFinishes, nDispatch, lastRealBatch>>

\* the frame callback of scheduleRender
Frame ==
  /\ frames > 0
  /\ frames' = frames - 1
  /\ rafId' = FALSE
  /\ \E renderTime \in RenderTimes :
       /\ renderPendingBlocks(renderTime)
       /\ lastRenderTime' = IF Len(pendingBlocks) > ChunkSize THEN renderTime ELSE 0
  /\ ack' = NoAck
  /\ retracted' = FALSE
  /\ UNCHANGED <<svars, now, nCalls, nFinishes, nClears, nDispatch, lastRealBatch>>

\* a setTimeout(() => this.scheduleRender(), delay) callback
TimerFire ==
  \E d \in Delays :
    /\ timers[d] > 0
    /\ timers' = [timers EXCEPT ![d] = @ - 1]
    /\ scheduleRender
    /\ ack' = NoAck
    /\ retracted' = FALSE
    /\ lastRenderTime' = 0
    /\ UNCHANGED <<svars, pendingBlocks, container, renderedBlocks, lastTempBlockId,
                   nextEid, now, nCalls, nFinishes, nClears, nDispatch, lastRealBatch>>

\* the clock advances
Tick ==
  /\ now < MaxNow
  /\ now' = now + 1
  /\ ack' = NoAck
  /\ retracted' = FALSE
  /\ lastRenderTime' = 0
  /\ UNCHANGED <<svars, rvars, nCalls, nFinishes, nClears, nDispatch, lastRealBatch>>

Next == append \/ Finish \/ ParseDone \/ ParseFail \/ Clear \/ Frame \/ TimerFire \/ Tick

Spec == Init /\ [][Next]_vars

(***************************************************************************)
(* One producer that awaits each call before it issues the next            *)
(***************************************************************************)
SerialAppend == inflight = <<>> /\ append
SerialFinish == inflight = <<>> /\ Finish
SerialClear == inflight = <<>> /\ Clear

\* the clock stands still here: block ids play no part in what this
\* specification is used for
NextSerial ==
  SerialAppend \/ SerialFinish \/ SerialClear \/ ParseDone \/ ParseFail \/ Frame
    \/ TimerFire

SpecSerial == Init /\ [][NextSerial]_vars

(***************************************************************************)
(* A producer whose append() does not wait for a suspended finish(): the   *)
(* two content watchers of the component run side by side                  *)
(***************************************************************************)
\* finish() is suspended at its await
FinishSuspended == \E i \in 1..Len(inflight) : inflight[i].kind = "finish"

\* append(chunk) called while finish() is suspended
RacingAppend == FinishSuspended /\ append

\* before finish() every call is awaited; after it, append() only races it
NextRace ==
  (nFinishes = 0 /\ SerialAppend) \/ SerialFinish \/ RacingAppend \/ ParseDone
    \/ ParseFail \/ Frame \/ TimerFire

SpecRace == Init /\ [][NextRace]_vars

(***************************************************************************)
(* One append() of an arbitrary chunk on a fresh processor                 *)
(***************************************************************************)
\* the characters of the chunks: letter, newline, punctuation, space, '#'
Alphabet == {"a", NL, ".", SP, "#"}

\* every chunk of up to MaxText characters
Texts == UNION {[1..n -> Alphabet] : n \in 1..MaxText}

FirstAppend == nCalls = 0 /\ \E chunk \in Texts : AppendChunk(chunk)

NextX == FirstAppend \/ ParseDone \/ ParseFail

SpecX == Init /\ [][NextX]_vars

(***************************************************************************)
(* The renderer driven directly through appendBlocks                       *)
(***************************************************************************)
\* the ids a caller of appendBlocks uses: two provisional, two finalized
DirectIds == {TempId(1), TempId(2), BlockId(0, 0), BlockId(1, 0)}

\* the batches a caller passes: none, one or two blocks
Batches ==
  {<<>>} \cup {<<a>> : a \in DirectIds} \cup {<<a, b>> : a \in DirectIds, b \in DirectIds}

DirectBlocks(ids) ==
  [k \in 1..Len(ids) |-> Block(ids[k], <<"a">>, "direct", nDispatch + 1, nClears)]

AppendBlocksDirect ==
  \E ids \in Batches :
    /\ nCalls < MaxBatches
    /\ nCalls' = nCalls + 1
    /\ nDispatch' = nDispatch + 1
    /\ appendBlocks(DirectBlocks(ids))
    /\ lastRealBatch' = IF ids # <<>> /\ ~IsTemp(ids[1]) THEN nDispatch + 1 ELSE lastRealBatch
    /\ retracted' = (lastTempBlockId # NoId /\ lastTempBlockId' = NoId)
    /\ lastRenderTime' = 0
    /\ ack' = NoAck
    /\ UNCHANGED <<svars, now, nFinishes, nClears>>

InitR == Init /\ variant = "sentence"

NextR == AppendBlocksDirect \/ Frame \/ TimerFire \/ Clear

SpecR == InitR /\ [][NextR]_vars

(***************************************************************************)
(* The renderer driven directly, for the configurations of debounceMs      *)
(***************************************************************************)
\* the values of config.debounceMs told apart: none, and the default
Debounces == {0, DebounceMs}

InitB ==
  /\ InitBase
  /\ split = Split(<<>>, FALSE, <<>>)
  /\ variant = "sentence"
  /\ debounceMs \in Debounces
  /\ scroller = Scroller(0, DefaultItemHeight, DefaultBufferSize, DefaultContainerHeight, 0)

SpecB == InitB /\ [][NextR]_vars

(***************************************************************************)
(* The windowed view of VirtualScroller                                    *)
(***************************************************************************)
\* Math.ceil(a / b) for a >= 0 and b > 0
CeilDiv(a, b) == (a + b - 1) \div b

Max(a, b) == IF a > b THEN a ELSE b

\* the computed visibleRange
visibleRange(v) ==
  LET start == v.scrollTop \div v.itemHeight
      visibleCount == CeilDiv(v.containerHeight, v.itemHeight)
      end == start + visibleCount
  IN [start |-> Max(0, start - v.bufferSize),
      end |-> Min(v.count, end + v.bufferSize)]

\* the greatest scrollTop the browser reports for the list as it is
MaxScrollTop(v) == Max(0, v.count * v.itemHeight - v.containerHeight)

InitV ==
  /\ InitBase
  /\ split = Split(<<>>, FALSE, <<>>)
  /\ variant = "sentence"
  /\ debounceMs = DebounceMs
  /\ \E n \in 0..MaxItems, h \in 1..MaxItemHeight, b \in 0..MaxBufferSize,
        c \in 1..MaxContainerHeight : scroller = Scroller(n, h, b, c, 0)

\* handleScroll: scrollTop follows the scroll position of the container
HandleScroll ==
  /\ \E t \in 0..MaxScrollTop(scroller) : scroller' = [scroller EXCEPT !.scrollTop = t]
  /\ UNCHANGED <<variant, debounceMs, wp, split, buffer, processedBlocks, inflight, appended,
                 remainder, failed, lastCall, rvars, hvars>>

\* the parent passes another list: scrollTop changes only at the next scroll event
SetItems ==
  /\ \E n \in 0..MaxItems : scroller' = [scroller EXCEPT !.count = n]
  /\ UNCHANGED <<variant, debounceMs, wp, split, buffer, processedBlocks, inflight, appended,
                 remainder, failed, lastCall, rvars, hvars>>

NextV == HandleScroll \/ SetItems

SpecV == InitV /\ [][NextV]_vars

(***************************************************************************)
(* MarkdownParser.splitIntoBlocks called on its own                        *)
(***************************************************************************)
\* the lines of the texts: empty, blank, plain, heading, table row, fence,
\* indented fence, horizontal rule
LineChoices ==
  {<<>>, <<SP>>, <<"a">>, <<"#">>, <<"|">>, FENCE, <<SP>> \o FENCE, <<"-", "-", "-">>}

\* every text of up to MaxLines lines
Markdowns == {JoinLines(ls) : ls \in UNION {[1..n -> LineChoices] : n \in 1..MaxLines}}

InitP ==
  /\ InitBase
  /\ variant = "sentence"
  /\ debounceMs = DebounceMs
  /\ scroller = Scroller(0, DefaultItemHeight, DefaultBufferSize, DefaultContainerHeight, 0)
  /\ \E markdown \in Markdowns : split = Split(markdown, FALSE, <<>>)

\* the call returns
SplitIntoBlocks ==
  /\ ~split.returned
  /\ split' = Split(split.markdown, TRUE, splitIntoBlocks(split.markdown))
  /\ UNCHANGED <<variant, debounceMs, scroller, wp, buffer, processedBlocks, inflight,
                 appended, remainder, failed, lastCall, rvars, hvars>>

NextP == SplitIntoBlocks

SpecP == InitP /\ [][NextP]_vars

(***************************************************************************)
(* WorkerParser and the message listener of markdown.worker.ts             *)
(***************************************************************************)
\* the value of a property that an object does not have
Undefined == "undefined"

\* the batches a caller passes to WorkerParser.parseBlocks
WorkerBatches ==
  {<<>>, <<[content |-> <<"a">>]>>, <<[content |-> <<"a">>], [content |-> <<"#">>]>>}

\* a JavaScript array as an object: its length and its elements, no other key
Array(items) == [length |-> Len(items), items |-> items]

\* const { id } = payload
IdOf(payload) == IF "id" \in DOMAIN payload THEN payload.id ELSE Undefined

\* results.push({ ...block, html }) for every block
WorkerResults(blocks) ==
  [k \in 1..Len(blocks) |->
     [content |-> blocks[k].content, html |-> Html(blocks[k].content)]]

\* WorkerParser.parseBlocks(blocks): register the request, post the message
parseBlocks ==
  \E blocks \in WorkerBatches :
    /\ wp.requestId < MaxRequests
    /\ wp' = [wp EXCEPT
                !.requestId = @ + 1,
                !.pendingRequests = @ \cup {wp.requestId},
                !.toWorker = Append(@, [type |-> "parse",
                                        payload |-> [blocks |-> blocks, id |-> wp.requestId]])]
    /\ UNCHANGED <<variant, debounceMs, scroller, split, buffer, processedBlocks, inflight, appended,
                   remainder, failed, lastCall, rvars, hvars>>

\* the worker's listener on its next message: the conversions succeed and the
\* results are posted, or marked.parse throws and the catch posts an error;
\* re records the request answered and is no part of the message
WorkerListener ==
  /\ wp.toWorker # <<>>
  /\ LET msg == Head(wp.toWorker)
         blocks == msg.payload.blocks
     IN \E threw \in (IF blocks = <<>> THEN {FALSE} ELSE BOOLEAN) :
          wp' = [wp EXCEPT
                   !.toWorker = Tail(@),
                   !.toMain = Append(@,
                     IF threw
                     THEN [type |-> "error", payload |-> [message |-> "Unknown error"],
                           re |-> msg.payload.id]
                     ELSE [type |-> "parse_result", payload |-> Array(WorkerResults(blocks)),
                           re |-> msg.payload.id])]
  /\ UNCHANGED <<variant, debounceMs, scroller, split, buffer, processedBlocks, inflight, appended,
                 remainder, failed, lastCall, rvars, hvars>>

\* WorkerParser.handleMessage on the next message from the worker
handleMessage ==
  /\ wp.toMain # <<>>
  /\ LET msg == Head(wp.toMain)
         id == IdOf(msg.payload)
         outcome == IF msg.type = "parse_result" THEN "resolved" ELSE "rejected"
         \* this.pendingRequests.get(id): no key of the map is undefined
         request == id # Undefined /\ id \in wp.pendingRequests
     IN IF request
        THEN wp' = [wp EXCEPT
                      !.toMain = Tail(@),
                      !.settled = MapSet(@, id, [outcome |-> outcome, value |-> msg.payload]),
                      !.pendingRequests = @ \ {id}]
        ELSE wp' = [wp EXCEPT !.toMain = Tail(@)]
  /\ UNCHANGED <<variant, debounceMs, scroller, split, buffer, processedBlocks, inflight, appended,
                 remainder, failed, lastCall, rvars, hvars>>

NextW == parseBlocks \/ WorkerListener \/ handleMessage

\* the worker runs its listener and the main thread its handler on every
\* message delivered
SpecW == InitR /\ [][NextW]_vars /\ WF_vars(WorkerListener) /\ WF_vars(handleMessage)

(***************************************************************************)
(* The renderer driven directly, updateBlock included                      *)
(***************************************************************************)
\* the markups a caller of updateBlock passes: the one rendered, another one
Markups == {Html(<<"a">>), Html(<<"z">>)}

\* updateBlock(blockId, newHtml): the innerHTML of the element found under
\* blockId is assigned (an equal value leaves it as it is)
updateBlock(blockId, newHtml) ==
  IF blockId \notin DOMAIN renderedBlocks
  THEN UNCHANGED container
  ELSE container' =
         [i \in 1..Len(container) |->
            IF container[i].eid = renderedBlocks[blockId]
            THEN [container[i] EXCEPT !.html = newHtml]
            ELSE container[i]]

UpdateBlock ==
  \E blockId \in DirectIds, newHtml \in Markups :
    /\ updateBlock(blockId, newHtml)
    /\ ack' = NoAck
    /\ retracted' = FALSE
    /\ lastRenderTime' = 0
    /\ UNCHANGED <<svars, pendingBlocks, renderedBlocks, rafId, frames, timers, lastTempBlockId,
                   nextEid, now, nCalls, nFinishes, nClears, nDispatch, lastRealBatch>>

NextU == AppendBlocksDirect \/ Frame \/ TimerFire \/ Clear \/ UpdateBlock

SpecU == InitR /\ [][NextU]_vars

(***************************************************************************)
(* The renderer without clear(), its callbacks firing whenever they are    *)
(* due: the browser runs every requested frame and every armed timer       *)
(***************************************************************************)
NextLive == AppendBlocksDirect \/ Frame \/ TimerFire

SpecLive == InitR /\ [][NextLive]_vars /\ WF_vars(Frame) /\ WF_vars(TimerFire)

(***************************************************************************)
(* Vocabulary of the properties                                            *)
(***************************************************************************)
\* the text appended since the last clear()
SinceClear == appended

\* the rawText of the materialized blocks, in document order
Materialized == Contents(container)

\* nothing is awaiting conversion and nothing is queued
Quiet == inflight = <<>> /\ pendingBlocks = <<>>

\* a text without its white space
Strip(s) == SelectSeq(s, LAMBDA c : ~IsSpace(c))

\* a is b with some characters left out
RECURSIVE IsSubseq(_, _)
IsSubseq(a, b) ==
  IF a = <<>> THEN TRUE
  ELSE IF b = <<>> THEN FALSE
  ELSE IF Head(a) = Head(b) THEN IsSubseq(Tail(a), Tail(b))
  ELSE IsSubseq(a, Tail(b))

\* the lines of a text that open or close a code block
FenceLines(t) ==
  LET lines == SplitLines(t)
  IN {i \in 1..Len(lines) : StartsWith(Trim(lines[i]), FENCE)}

\* a whole fenced code block: an opening fence line, a closing one, none between
IsFencedBlock(t) == FenceLines(t) = {1, Len(SplitLines(t))} /\ Len(SplitLines(t)) > 1

\* an opening fence line that nothing closes
IsOpenFence(t) == FenceLines(t) = {1}

\* a text of plain letters: no newline, punctuation, fence, '#' or '|'
OnlyText(t) == \A i \in 1..Len(t) : t[i] = "a"

\* one heading line with its terminating newline
IsHeadingLine(t) ==
  /\ Len(t) >= 2
  /\ t[1] = "#"
  /\ t[Len(t)] = NL
  /\ OnlyText(SubSeq(t, 2, Len(t) - 1))

\* table rows, one per line, no blank line among them: an open table
IsOpenTable(t) ==
  /\ t # <<>>
  /\ t[1] = "|"
  /\ \A i \in 1..Len(t) : t[i] \in {"|", NL}
  /\ \A i \in 1..(Len(t) - 1) : ~(t[i] = NL /\ t[i + 1] = NL)

\* the finalized entries of a sequence of blocks or elements
FinalOf(bs) == SelectSeq(bs, LAMBDA b : ~IsTemp(b.id))

\* what identifies the block behind a queue entry or an element
Keys(bs) == [i \in 1..Len(bs) |-> <<bs[i].id, bs[i].content, bs[i].call>>]

\* the step is a drain that took blocks from the queue
IsDrain == Len(pendingBlocks') < Len(pendingBlocks) /\ nClears' = nClears

\* the text holds a paragraph (no code fence) that a blank line has completed
HasCompletedParagraph(t) ==
  LET i == IndexOf(t, <<NL, NL>>)
  IN i # -1 /\ Trim(Take(t, i)) # <<>> /\ ~Includes(Take(t, i), BT)

\* the positions of the sentence ends of a text: terminal punctuation that
\* white space follows
SentenceEnds(t) == {i \in 1..(Len(t) - 1) : IsPunct(t[i]) /\ IsSpace(t[i + 1])}

\* the greatest element of a non-empty set of numbers
Greatest(S) == CHOOSE i \in S : \A j \in S : j <= i

\* every block the processor holds or has handed on
AllBlocks ==
  {processedBlocks[i] : i \in 1..Len(processedBlocks)}
    \cup {pendingBlocks[i] : i \in 1..Len(pendingBlocks)}
    \cup {container[i] : i \in 1..Len(container)}

\* the provisional elements of the materialized set
TempElements == {i \in 1..Len(container) : IsTemp(container[i].id)}

FinishedAndDrained == lastCall = "finish" /\ Quiet

\* C2 as stated: after awaited appends and a finish whose conversions all
\* succeeded, once the queue has drained, the materialized rawText read in
\* order reproduces the appended text, except inside the remainder that
\* finish() was handed.
C2_RoundTrip ==
  (FinishedAndDrained /\ ~failed) =>
    StartsWith(Concat(Materialized), Take(SinceClear, Len(SinceClear) - Len(remainder)))

\* C2 amended: after awaited appends and a finish, once the queue has drained,
\* the materialized rawText read in order is the appended text with
\* characters left out, never reordered or added; when no conversion failed
\* only white space is left out (the separators that append() and finish()
\* drop), so the two texts agree once white space is ignored.
C2_RoundTripUpToSpace ==
  FinishedAndDrained =>
    /\ IsSubseq(Concat(Materialized), SinceClear)
    /\ ~failed => Strip(Concat(Materialized)) = Strip(SinceClear)

\* two blocks were materialized after a finish and a separator was dropped
C2_Witness ==
  /\ FinishedAndDrained
  /\ ~failed
  /\ Len(container) >= 2
  /\ Concat(Materialized) # SinceClear

(***************************************************************************)
(* C3                                                                      *)
(***************************************************************************)
InCallOrder(bs) == \A i, j \in 1..Len(bs) : i < j => bs[i].call <= bs[j].call

\* C3: whatever the conversion latency, blocks reach processedBlocks, the
\* pending queue and the materialized set in the order in which their text
\* was appended, that is in the order of the requests that extracted them.
C3_ArrivalOrder ==
  InCallOrder(processedBlocks) /\ InCallOrder(pendingBlocks) /\ InCallOrder(container)

(***************************************************************************)
(* C4                                                                      *)
(***************************************************************************)
\* C4: when the text appended by awaited calls is one fenced code block, what
\* is materialized once the queue has drained is nothing yet or that block
\* whole, never a piece of it.
C4_FenceNeverSplit ==
  (IsFencedBlock(SinceClear) /\ Quiet /\ ~failed) =>
    Materialized \in {<<>>, <<SinceClear>>}

(***************************************************************************)
(* C5                                                                      *)
(***************************************************************************)
\* C5: while the appended text is an opening fence that nothing closes,
\* append() emits no block; finish() then resolves with exactly one block
\* holding the whole text.
C5_OpenFenceHeld ==
  IsOpenFence(SinceClear) =>
    /\ \A i \in 1..Len(inflight) : inflight[i].kind # "append"
    /\ \A b \in AllBlocks : b.by # "append"
    /\ ack = Settled("finish", "resolved") => Contents(processedBlocks) = <<SinceClear>>

(***************************************************************************)
(* C6                                                                      *)
(***************************************************************************)
\* C6: a conversion result that arrives after a clear() is discarded, so no
\* block made from text appended before the last clear() is in
\* processedBlocks, the pending queue or the materialized set.
C6_StaleDiscarded == \A b \in AllBlocks : b.epoch = nClears

(***************************************************************************)
(* C7                                                                      *)
(***************************************************************************)
\* C7: no promise returned by append() or finish() is ever rejected.
C7_NoRejection == ack.outcome # "rejected"

(***************************************************************************)
(* C8                                                                      *)
(***************************************************************************)
\* C8: when the promise of finish() resolves the pending queue is empty and
\* every processed block is in the materialized set.
C8_FinishAcksMaterialized ==
  ack = Settled("finish", "resolved") =>
    /\ pendingBlocks = <<>>
    /\ Contents(processedBlocks) = Materialized

(***************************************************************************)
(* C9                                                                      *)
(***************************************************************************)
\* C9: whatever batches are enqueued, drained and cleared, the materialized
\* set holds at most one provisional block.
C9_AtMostOneProvisional == Cardinality(TempElements) <= 1

\* a provisional block is materialized after an earlier element was removed
\* from the set (only provisional blocks are ever removed one by one)
C9_Witness == TempElements # {} /\ Len(container) < nextEid

C11_ClearIdempotent == clear(clear(Here)) = clear(Here)

\* clear() has just returned from a state it changed: text had been
\* appended before it, and the state it left is one clear() keeps
C11_Witness ==
  /\ ack = Settled("clear", "returned")
  /\ nCalls > 0
  /\ Here = clear(Here)

(***************************************************************************)
(* C12                                                                     *)
(***************************************************************************)
\* C12: when clear() returns no frame callback and no backoff timer is
\* scheduled, the queue and the materialized set are empty and the
\* provisional id is none.
C12_ClearResetsScheduler ==
  ack = Settled("clear", "returned") =>
    /\ ~rafId
    /\ frames = 0
    /\ \A d \in Delays : timers[d] = 0
    /\ pendingBlocks = <<>>
    /\ container = <<>>
    /\ renderedBlocks = EmptyMap
    /\ lastTempBlockId = NoId

C14_HeadingAtomic ==
  (IsHeadingLine(SinceClear) /\ nFinishes = 0 /\ Quiet /\ ~failed) =>
    Materialized = <<Take(SinceClear, Len(SinceClear) - 1)>>

(***************************************************************************)
(* C15                                                                     *)
(***************************************************************************)
\* C15: when the text appended by awaited calls (finish() not called) is
\* plain text, a blank line and plain text again, the text before the blank
\* line is materialized as one block (built from all its chunks) and the
\* text after it is the buffer.
C15_BlankLineRule ==
  \A k \in 1..(Len(SinceClear) - 2) :
    (/\ OnlyText(Take(SinceClear, k))
     /\ SinceClear[k + 1] = NL
     /\ SinceClear[k + 2] = NL
     /\ OnlyText(Drop(SinceClear, k + 2))
     /\ nFinishes = 0
     /\ Quiet
     /\ ~failed) =>
      /\ Materialized = <<Take(SinceClear, k)>>
      /\ buffer = Drop(SinceClear, k + 2)

(***************************************************************************)
(* C16                                                                     *)
(***************************************************************************)
\* C16: while the appended text is plain text without any boundary, append()
\* emits no block, and once the one finish() that follows has been awaited
\* and the queue has drained the materialized set is one block equal to the
\* whole text.
C16_PlainTextHeld ==
  (SinceClear # <<>> /\ OnlyText(SinceClear)) =>
    /\ \A i \in 1..Len(inflight) : inflight[i].kind # "append"
    /\ \A b \in AllBlocks : b.by # "append"
    /\ (FinishedAndDrained /\ nFinishes = 1 /\ ~failed) => Materialized = <<SinceClear>>

(***************************************************************************)
(* C17                                                                     *)
(***************************************************************************)
\* C17: whenever a conversion request completes, with or without a failing
\* entry, every span of the request is appended to the processed blocks in
\* its original position: the batch does not fail and no span is lost.
C17_FailureContained ==
  [][\A i \in 1..Len(inflight) :
       inflight' = RemoveAt(inflight, i) =>
         Contents(processedBlocks') = Contents(processedBlocks) \o inflight[i].blocks]_vars

(***************************************************************************)
(* C18                                                                     *)
(***************************************************************************)
\* C18: under any interleaving of append() and finish() calls at most one
\* conversion request is outstanding.
C18_DispatchSerialized == Len(inflight) <= 1

(***************************************************************************)
(* C19                                                                     *)
(***************************************************************************)
\* C19: the ids of the blocks created are pairwise different (as ids that
\* increase in creation order must be), whatever the batches and the clock
\* readings.
C19_IdsDistinct ==
  \A i, j \in 1..Len(processedBlocks) :
    i # j => processedBlocks[i].id # processedBlocks[j].id

(***************************************************************************)
(* C20                                                                     *)
(***************************************************************************)
\* C20: no step other than clear() removes a finalized block from the
\* materialized set or changes its markup: every finalized element is still
\* there, with the same markup, after the step.
C20_MaterializedImmutable ==
  [][nClears' = nClears =>
       \A i \in 1..Len(container) :
         ~IsTemp(container[i].id) =>
           \E j \in 1..Len(container') :
             /\ container'[j].eid = container[i].eid
             /\ container'[j].html = container[i].html]_vars

(***************************************************************************)
(* C21                                                                     *)
(***************************************************************************)
\* C21: while the text appended by awaited calls (finish() not called) is a
\* run of table rows that no blank line has closed, append() emits no block;
\* once a blank line closes the rows, what is materialized after the queue
\* has drained is exactly one block holding all the rows.
C21_TableAccumulates ==
  nFinishes = 0 =>
    /\ IsOpenTable(SinceClear) =>
         /\ \A i \in 1..Len(inflight) : inflight[i].kind # "append"
         /\ \A b \in AllBlocks : b.by # "append"
    /\ \A k \in 1..(Len(SinceClear) - 2) :
         (/\ k + 2 = Len(SinceClear)
          /\ IsOpenTable(Take(SinceClear, k))
          /\ SinceClear[k] = "|"
          /\ SinceClear[k + 1] = NL
          /\ SinceClear[k + 2] = NL
          /\ Quiet
          /\ ~failed) => Materialized = <<Take(SinceClear, k)>>

(***************************************************************************)
(* C22                                                                     *)
(***************************************************************************)
\* C22 as stated: every drain takes min(chunkSize, queue length) blocks from
\* the head of the queue and the materialized set afterwards is the one
\* before followed by those blocks in queue order.
C22_DrainAppendsBatch ==
  [][IsDrain =>
       LET n == Min(ChunkSize, Len(pendingBlocks))
       IN /\ pendingBlocks' = Drop(pendingBlocks, n)
          /\ Keys(container') = Keys(container) \o Keys(Take(pendingBlocks, n))]_vars

\* C22 amended: every drain takes min(chunkSize, queue length) blocks from
\* the head of the queue; the finalized blocks of the materialized set
\* afterwards are those before followed by the finalized blocks of the
\* batch in queue order, and the provisional blocks afterwards are at most
\* one, the last provisional block of the batch when it has one.
C22_FifoDrain ==
  [][IsDrain =>
       LET n == Min(ChunkSize, Len(pendingBlocks))
           batch == Take(pendingBlocks, n)
           temps == SelectSeq(batch, LAMBDA b : IsTemp(b.id))
       IN /\ pendingBlocks' = Drop(pendingBlocks, n)
          /\ Keys(FinalOf(container')) = Keys(FinalOf(container)) \o Keys(FinalOf(batch))
          /\ temps # <<>> =>
               Keys(SelectSeq(container', LAMBDA e : IsTemp(e.id)))
                 = Keys(<<temps[Len(temps)]>>)]_vars

\* a drain has taken one chunk from a deeper queue: the materialized set is
\* one chunk of finalized blocks, the rest is queued and a timer is armed
C22_Witness ==
  /\ Len(container) = ChunkSize
  /\ TempElements = {}
  /\ pendingBlocks # <<>>
  /\ \E d \in Delays : timers[d] > 0

(***************************************************************************)
(* C23                                                                     *)
(***************************************************************************)
\* C23: under any interleaving of appendBlocks calls, timer callbacks, frame
\* callbacks and clear(), at most one drain frame callback is outstanding,
\* and it is outstanding exactly while rafId holds its handle. (A drain runs
\* to completion within its callback, so none starts inside another.)
C23_SingleFlight == frames <= 1 /\ (rafId <=> frames = 1)

\* two appendBlocks calls have been made before any frame ran: the second
\* one found the frame of the first still requested
C23_Witness ==
  /\ rafId
  /\ nCalls >= 2
  /\ nClears = 0
  /\ nextEid = 0
  /\ Len(pendingBlocks) >= 2

(***************************************************************************)
(* C24                                                                     *)
(***************************************************************************)
\* the step armed exactly one timer, of delay d
Armed(d) == timers' = [timers EXCEPT ![d] = @ + 1]

\* C24 as stated: a drain that leaves blocks queued arms one timer for the
\* next drain, of a strictly positive delay exactly when the batch took
\* longer than the 16 ms budget and of delay zero otherwise; a drain that
\* empties the queue schedules nothing.
C24_BackoffPositive ==
  [][IsDrain =>
       /\ frames' = 0
       /\ pendingBlocks' = <<>> => timers' = timers
       /\ pendingBlocks' # <<>> =>
            \E d \in Delays :
              /\ Armed(d)
              /\ d > 0 <=> lastRenderTime' > FrameBudget]_vars

\* C24 amended: the delay is min(debounceMs, 8) when the batch took longer
\* than the budget, which is strictly positive only for a positive
\* debounceMs, and zero otherwise.
C24_BackoffRule ==
  [][IsDrain =>
       /\ frames' = 0
       /\ pendingBlocks' = <<>> => timers' = timers
       /\ pendingBlocks' # <<>> =>
            Armed(IF lastRenderTime' > FrameBudget
                  THEN Min(debounceMs, BackoffCap) ELSE 0)]_vars

\* a drain over the budget has left blocks queued and armed the backoff
\* timer of the default configuration
C24_Witness ==
  /\ lastRenderTime > FrameBudget
  /\ debounceMs = DebounceMs
  /\ pendingBlocks # <<>>
  /\ timers[Min(DebounceMs, BackoffCap)] > 0

(***************************************************************************)
(* C25                                                                     *)
(***************************************************************************)
\* C25: after an append() the retained buffer holds no paragraph that a
\* blank line has already completed, and it is the unchanged tail of the
\* appended text.
C25_ExtractsEverySpan ==
  (lastCall = "append" /\ nFinishes = 0) =>
    /\ ~HasCompletedParagraph(buffer)
    /\ EndsWith(SinceClear, buffer)

(***************************************************************************)
(* C26                                                                     *)
(***************************************************************************)
\* C26: when an awaited finish() resolves the buffer is empty, whatever it
\* held before, and every non-blank character of what it held is in the
\* blocks handed on.
C26_FinishEmptiesBuffer ==
  ack = Settled("finish", "resolved") =>
    /\ buffer = <<>>
    /\ IsSubseq(Strip(remainder), Strip(Concat(Contents(processedBlocks))))

(***************************************************************************)
(* C27                                                                     *)
(***************************************************************************)
\* C27: while all the text appended is white space, so that the buffer is
\* blank after each append(), no append() is rejected and nothing is
\* dispatched; and no blank block is ever handed to the converter or the
\* scheduler.
C27_BlankYieldsNothing ==
  /\ (SinceClear # <<>> /\ Trim(SinceClear) = <<>> /\ lastCall = "append") =>
       /\ ack.outcome # "rejected"
       /\ inflight = <<>>
  /\ \A i \in 1..Len(inflight) :
       \A k \in 1..Len(inflight[i].blocks) : Trim(inflight[i].blocks[k]) # <<>>
  /\ \A b \in AllBlocks : Trim(b.content) # <<>>

(***************************************************************************)
(* C28                                                                     *)
(***************************************************************************)
\* C28: on the sentence-boundary processor, when the first append() brings a
\* text without a blank line that has sentence ends, the one span it
\* dispatches is the text up to and including the last sentence end,
\* verbatim, and the buffer is the text after it (without the white space
\* that follows the punctuation).
C28_SentenceVerbatim ==
  (/\ variant = "sentence"
   /\ nCalls = 1 /\ nFinishes = 0 /\ nClears = 0
   /\ lastCall = "append"
   /\ IndexOf(SinceClear, <<NL, NL>>) = -1
   /\ SentenceEnds(SinceClear) # {}
   /\ inflight # <<>>) =>
    LET k == Greatest(SentenceEnds(SinceClear))
    IN /\ inflight[1].blocks = <<Take(SinceClear, k)>>
       /\ buffer = TrimStart(Drop(SinceClear, k))

(***************************************************************************)
(* C29                                                                     *)
(***************************************************************************)
\* C29: the rendered range [start, end) lies within the list with
\* start <= end, holds every item that intersects the viewport, and has at
\* most ceil(containerHeight / itemHeight) + 2 * bufferSize items.
C29_WindowBounds ==
  LET v == scroller
      r == visibleRange(v)
  IN /\ 0 <= r.start /\ r.start <= r.end /\ r.end <= v.count
     /\ \A i \in 0..(v.count - 1) :
          (i * v.itemHeight < v.scrollTop + v.containerHeight
             /\ (i + 1) * v.itemHeight > v.scrollTop) =>
            (r.start <= i /\ i < r.end)
     /\ r.end - r.start <= CeilDiv(v.containerHeight, v.itemHeight) + 2 * v.bufferSize

(***************************************************************************)
(* C30                                                                     *)
(***************************************************************************)
\* StreamProcessor.getStats with IncrementalRenderer.getStats spread into it
\* (domNodeCount, a count of DOM descendants, is not part of the model)
getStats ==
  [bufferSize |-> Len(buffer),
   processedBlocks |-> Len(processedBlocks),
   renderedCount |-> Cardinality(DOMAIN renderedBlocks),
   pendingCount |-> Len(pendingBlocks)]

\* C30: the stats snapshot satisfies processedBlocks = pendingCount +
\* renderedCount, and renderedCount is the number of block elements in the
\* container.
C30_StatsConsistent ==
  /\ getStats.processedBlocks = getStats.pendingCount + getStats.renderedCount
  /\ getStats.renderedCount = Len(container)

(***************************************************************************)
(* C31                                                                     *)
(***************************************************************************)
\* what one append(text) on a fresh processor followed by finish() hands to
\* the renderer: the spans extracted, then the blocks of the buffer left
OneChunk(v, text) ==
  LET r == extractCompleteBlocks(v, text)
  IN (IF r.threw THEN <<>> ELSE r.blocks)
       \o (IF Trim(r.buffer) # <<>> THEN splitIntoBlocks(r.buffer) ELSE <<>>)

\* C31: the block texts materialized after finish() and a full drain are
\* those of the partition of the text into one single chunk, whatever the
\* partition into append chunks was.
C31_ChunkingIndependent ==
  (FinishedAndDrained /\ ~failed) => Materialized = OneChunk(variant, SinceClear)

(***************************************************************************)
(* C32                                                                     *)
(***************************************************************************)
\* how often the character c occurs in the text s
Occurrences(c, s) == Cardinality({i \in 1..Len(s) : s[i] = c})

\* the characters of a text that are not white space
Visible(s) == {s[i] : i \in 1..Len(s)} \ {SP, NL}

\* the text the processor accounts for: its emitted blocks and its buffer
Accounted == Concat(Contents(processedBlocks)) \o buffer

\* an append() was called while finish() was suspended, and every call has
\* completed without a failed conversion
RaceOver ==
  /\ lastCall = "append"
  /\ nFinishes > 0
  /\ inflight = <<>>
  /\ ~failed

\* C32: after an append() that raced a suspended finish(), once both calls
\* have completed, every character (white space aside) of the text appended
\* occurs in the emitted blocks and the buffer exactly as often as it was
\* appended: nothing is lost and nothing is emitted twice.
C32_RaceConserves ==
  RaceOver =>
    \A c \in Visible(SinceClear) \cup Visible(Accounted) :
      Occurrences(c, Accounted) = Occurrences(c, SinceClear)

(***************************************************************************)
(* C33                                                                     *)
(***************************************************************************)
\* the worker has posted its reply to the request id
Replied(id) == \E i \in 1..Len(wp.toMain) : wp.toMain[i].re = id

\* C33: once the worker has posted its reply to a request, the request is
\* eventually settled and removed from pendingRequests.
C33_RepliesSettle ==
  \A id \in 0..(MaxRequests - 1) :
    Replied(id) ~> (id \in DOMAIN wp.settled /\ id \notin wp.pendingRequests)

(***************************************************************************)
(* C34                                                                     *)
(***************************************************************************)
\* the line opens or closes a code block
IsFenceLine(line) == StartsWith(Trim(line), FENCE)

\* line i lies after an opening fence line that no fence line has closed yet
InsideFence(lines, i) ==
  Cardinality({j \in 1..(i - 1) : IsFenceLine(lines[j])}) % 2 = 1

\* line i opens a code block
OpensFence(lines, i) == IsFenceLine(lines[i]) /\ ~InsideFence(lines, i)

\* the last line of the code block that line i opens: the next fence line,
\* or the last line of the text when there is none
FenceEnd(lines, i) ==
  LET closers == {j \in (i + 1)..Len(lines) : IsFenceLine(lines[j])}
  IN IF closers = {} THEN Len(lines) ELSE CHOOSE j \in closers : \A k \in closers : j <= k

\* the lines from i on that a block must hold: those inside code blocks and
\* the non-blank ones outside
RECURSIVE KeptLines(_, _)
KeptLines(lines, i) ==
  IF i > Len(lines) THEN <<>>
  ELSE IF InsideFence(lines, i) \/ Trim(lines[i]) # <<>>
  THEN <<lines[i]>> \o KeptLines(lines, i + 1)
  ELSE KeptLines(lines, i + 1)

\* the lines of a sequence of blocks, read in order
RECURSIVE LinesOf(_)
LinesOf(blocks) ==
  IF blocks = <<>> THEN <<>> ELSE SplitLines(Head(blocks)) \o LinesOf(Tail(blocks))

\* C34: the blocks splitIntoBlocks returns, read in order, hold every
\* non-blank line outside code blocks and every line of a code block exactly
\* once and in input order; the lines from an opening fence line to the next
\* fence line are one block, blank lines included; no block is blank; and an
\* unterminated fence gives the last block, which runs to the end of the text.
C34_SplitConservesLines ==
  split.returned =>
    LET lines == SplitLines(split.markdown)
        blocks == split.blocks
    IN /\ LinesOf(blocks) = KeptLines(lines, 1)
       /\ \A k \in 1..Len(blocks) : Trim(blocks[k]) # <<>>
       /\ \A i \in 1..Len(lines) :
            OpensFence(lines, i) =>
              LET j == FenceEnd(lines, i)
                  code == JoinLines(SubSeq(lines, i, j))
              IN /\ \E k \in 1..Len(blocks) : blocks[k] = code
                 /\ ~IsFenceLine(lines[j]) \/ j = i => blocks[Len(blocks)] = code

\* the call has returned for a text with a blank line outside a code block and
\* with an unterminated fence that has a blank line after it
C34_Witness ==
  /\ split.returned
  /\ LET lines == SplitLines(split.markdown)
     IN \E i, j, k \in 1..Len(lines) :
          /\ i < j /\ j < k
          /\ Trim(lines[i]) = <<>>
          /\ OpensFence(lines, j) /\ FenceEnd(lines, j) = Len(lines)
          /\ ~IsFenceLine(lines[Len(lines)])
          /\ Trim(lines[k]) = <<>>

====
